---- MODULE Spec2Model ----
(***************************************************************************)
(* A model of the Adapton engine of src/src/engine.rs: the demanded        *)
(* computation graph (table), the frame stack, the current path and the    *)
(* counters, with the operations cell, set, thunk and force, and the       *)
(* engine's internal produce / change propagation / dirtying algorithms.   *)
(*                                                                         *)
(* The re-entrant functions (force, produce, ProducerDep::change_prop,     *)
(* change_prop_comp and the producers written by the client) are run by a  *)
(* machine with an explicit stack of activations (ctl).  The functions     *)
(* that never call client code (cell, thunk, set_, dirty_alloc,            *)
(* dirty_pred_observers, revoke_succs, get_succ_mut) are operators on the  *)
(* engine state.                                                           *)
(*                                                                         *)
(* The engine runs with the flags Engine::new gives it when no ADAPTON_*   *)
(* variable is set: names are used as given, and wf::check_dcg does        *)
(* nothing.  A panic ends the run: the engine catches nothing, and the     *)
(* state is left as it was when the panic was raised.                      *)
(*                                                                         *)
(* Spec takes every call of the outer layer as one step; SpecStep takes    *)
(* a force one step of the running function at a time.  SpecStruct,        *)
(* SpecFail, SpecNest, SpecShare, SpecPath and SpecRec are step-by-step    *)
(* too, with other clients: one that allocates structural and eager        *)
(* thunks; one that uses ns and whose producers may panic, force their     *)
(* own location or allocate over it; one with three levels of thunks, the  *)
(* innermost allocating a cell anew; one whose thunk forces two thunks     *)
(* that share a cell; one whose producers call ns; and one whose producer  *)
(* allocates its own location with another argument and forces it.         *)
(***************************************************************************)
EXTENDS Naturals, Sequences, FiniteSets, TLC

VARIABLES
    table,   \* Engine.table : Loc -> node
    stack,   \* Engine.stack : Vec<Frame>
    path,    \* Engine.path
    cnt,     \* Engine.cnt
    ctl,     \* the activations of the engine's and the client's functions
    ret,     \* the value returned by the activation that returned last
    err,     \* the panic that ended the run, or NoErr
    log,     \* what the operation in progress did (the debug! lines)
    last,    \* the client's view of the last top-level operation
    mutArts, \* the MutArt handles of the client, with the value it wrote last
    memo     \* the thunks forced since the last cell, set or new argument

vars == <<table, stack, path, cnt, ctl, ret, err, log, last, mutArts, memo>>

-----------------------------------------------------------------------------
(* Bounds of the model. *)

MaxVal  == 1   \* cells hold 0..MaxVal
MaxArg  == 1   \* thunk arguments are 0..MaxArg
MaxEval == 2   \* no top-level operation starts once cnt.eval is above it
MaxProp == 1   \* ... nor once cnt.change_prop is above it
MaxDirt == 2   \* ... nor once cnt.dirty is above it
MaxDepth == 2  \* no frame is pushed on a stack of more than MaxDepth frames
NestEval == 3  \* the bounds of the client with nested thunks (SpecNest):
NestProp == 1  \*   as MaxEval, MaxProp and MaxDirt
NestDirt == 3
MaxCtl == 10   \* no step is taken on more than MaxCtl nested activations

Vals == 0..MaxVal
Args == 0..MaxArg

-----------------------------------------------------------------------------
(* Option<T> *)

None == <<>>
Some(v) == <<v>>
IsSome(o) == o # <<>>
Unwrap(o) == o[1]

(* The panics of the engine. *)
NoErr == "none"
DanglingLocation == "dangling pointer"
MutationDuringEvaluation == "assertion failed: self.stack.is_empty()"
NominalCollision == "TODO-Sometime: Memozied functions not equal!"
DanglingEdge == "tgt_loc is dangling in src_node.dem_succs"
Undefined == "undefined"
Unreachable == "unreachable"
InternalError == "internal error"
RootInPreds == "root in preds"
BrokenStack == "expected Some _: stack invariants are broken"
BrokenFrame == "assertion failed: &frame.loc == loc"
DirtyNewEdge == "invariants broken: newly-built DCG edge should be clean, but is dirty."
ProducerPanic == "producer panicked"
BodyPanic == "body of ns panicked"
NotComp == "assertion failed: is_comp"

(* Loc{path, id}; the hash field is a function of the two.  A structural  *)
(* id is the hash of its content, kept here as the content itself.        *)
NomLoc(p, nm) == [path |-> p, kind |-> "Nominal", name |-> nm, hash |-> <<>>]
StrLoc(p, h) == [path |-> p, kind |-> "Structural", name |-> "", hash |-> h]
root == NomLoc(<<>>, "/")

(* Succ and its EngineDep. *)
NoDependency == [kind |-> "NoDependency", res |-> 0]
AllocDependency(v) == [kind |-> "AllocDependency", res |-> v]
ProducerDep(r) == [kind |-> "ProducerDep", res |-> r]
(* An edge that is built dirty. *)
Succ_built_dirty(l, e, d) == [dirty |-> TRUE, loc |-> l, effect |-> e, dep |-> d]
Succ(l, e, d) == [dirty |-> FALSE, loc |-> l, effect |-> e, dep |-> d]

(* A MutNode that does not keep the value it is built with. *)
MutNode_zeroed(v) ==
    [kind |-> "Mut", preds |-> <<>>, val |-> 0,
     succs |-> <<>>, pp |-> "", arg |-> 0, res |-> None]

(* Node::Mut(MutNode) and Node::Comp(CompNode); arg is the App's arg and  *)
(* pp its prog_pt.                                                        *)
MutNode(v) ==
    [kind |-> "Mut", preds |-> <<>>, val |-> v,
     succs |-> <<>>, pp |-> "", arg |-> 0, res |-> None]
CompNode(pp, arg) ==
    [kind |-> "Comp", preds |-> <<>>, val |-> 0,
     succs |-> <<>>, pp |-> pp, arg |-> arg, res |-> None]

(* A frame that does not keep the location it is pushed for. *)
Frame_of_root(l) == [loc |-> root, succs |-> <<>>]
Frame(l) == [loc |-> l, succs |-> <<>>]
ZeroCnt == [eval |-> 0, dirty |-> 0, change_prop |-> 0]

(* The engine state as one value; the operators below map states to states. *)
St == [table |-> table, stack |-> stack, path |-> path, cnt |-> cnt,
       ctl |-> ctl, ret |-> ret, err |-> err, log |-> log]

Panic(s, msg) == [s EXCEPT !.err = msg, !.ctl = <<>>]
Ok(s) == s.err = NoErr

-----------------------------------------------------------------------------
(* Sequence helpers. *)

MinOf(idx) == IF idx = {} THEN 0 ELSE CHOOSE i \in idx : \A j \in idx : i <= j
Last(seq) == seq[Len(seq)]
Front(seq) == SubSeq(seq, 1, Len(seq) - 1)

-----------------------------------------------------------------------------
(* GraphNode: the predecessor lists. *)

RECURSIVE preds_of(_, _)
preds_of(preds, eff) ==
    IF preds = <<>> THEN <<>>
    ELSE IF Head(preds).effect = eff
    THEN <<Head(preds).loc>> \o preds_of(Tail(preds), eff)
    ELSE preds_of(Tail(preds), eff)
RECURSIVE preds_without(_, _)
preds_without(preds, loc) ==
    IF preds = <<>> THEN <<>>
    ELSE IF Head(preds).loc # loc
    THEN <<Head(preds)>> \o preds_without(Tail(preds), loc)
    ELSE preds_without(Tail(preds), loc)
preds_obs(node) == preds_of(node.preds, "Observe")
preds_alloc(node) == preds_of(node.preds, "Allocate")
preds_insert(node, eff, loc) ==
    [node EXCEPT !.preds = Append(@, [effect |-> eff, loc |-> loc])]
preds_remove(node, loc) ==
    [node EXCEPT !.preds = preds_without(@, loc)]

Has(s, loc) == loc \in DOMAIN s.table

(* get_succ_mut: the first edge of src with this effect and target.  The  *)
(* three operators are its panics, the read of the dirty bit and the      *)
(* write of it.                                                           *)
get_succ_idx(node, eff, tgt) ==
    MinOf({i \in 1..Len(node.succs) :
              node.succs[i].effect = eff /\ node.succs[i].loc = tgt})
get_succ_err(s, src, eff, tgt) ==
    IF ~Has(s, src) THEN DanglingLocation
    ELSE IF s.table[src].kind # "Comp" THEN Undefined
    ELSE IF get_succ_idx(s.table[src], eff, tgt) = 0 THEN DanglingEdge
    ELSE NoErr
get_succ_dirty(s, src, eff, tgt) ==
    s.table[src].succs[get_succ_idx(s.table[src], eff, tgt)].dirty
(* A write of the dirty bit that is lost. *)
set_succ_dirty_lost(s, src, eff, tgt, b) == s
set_succ_dirty(s, src, eff, tgt, b) ==
    [s EXCEPT !.table[src].succs[get_succ_idx(s.table[src], eff, tgt)].dirty = b]

(* dirty_pred_observers: mark the Observe edge of every observer of loc,  *)
(* and go on to the observers of each observer whose edge was clean.      *)
RECURSIVE dirty_pred_observers(_, _), dirty_pred_loop(_, _, _, _, _)
dirty_pred_loop(s, loc, pred_locs, i, dirty_edge_count) ==
    IF ~Ok(s) THEN s
    ELSE IF i > Len(pred_locs)
    THEN [s EXCEPT !.cnt.dirty = @ + dirty_edge_count]
    ELSE LET pred_loc == pred_locs[i]
             e == get_succ_err(s, pred_loc, "Observe", loc)
         IN  IF pred_loc = root THEN Panic(s, RootInPreds)
             ELSE IF e # NoErr THEN Panic(s, e)
             ELSE IF get_succ_dirty(s, pred_loc, "Observe", loc)
             THEN dirty_pred_loop(s, loc, pred_locs, i + 1, dirty_edge_count)
             ELSE dirty_pred_loop(
                      dirty_pred_observers(
                          set_succ_dirty(s, pred_loc, "Observe", loc, TRUE),
                          pred_loc),
                      loc, pred_locs, i + 1, dirty_edge_count + 1)
dirty_pred_observers(s, loc) ==
    IF ~Has(s, loc) THEN Panic(s, DanglingLocation)
    ELSE dirty_pred_loop(s, loc, preds_obs(s.table[loc]), 1, 0)

(* A dirty_alloc that marks nothing. *)
dirty_alloc_skipped(s, loc) == s

(* dirty_alloc: the observers of loc, then the Allocate edges into loc.   *)
RECURSIVE dirty_alloc_loop(_, _, _, _)
dirty_alloc_loop(s, loc, pred_locs, i) ==
    IF ~Ok(s) \/ i > Len(pred_locs) THEN s
    ELSE LET pred_loc == pred_locs[i]
             e == get_succ_err(s, pred_loc, "Allocate", loc)
         IN  IF pred_loc = root THEN Panic(s, RootInPreds)
             ELSE IF e # NoErr THEN Panic(s, e)
             ELSE IF get_succ_dirty(s, pred_loc, "Allocate", loc)
             THEN dirty_alloc_loop(s, loc, pred_locs, i + 1)
             ELSE dirty_alloc_loop(
                      dirty_pred_observers(
                          set_succ_dirty(s, pred_loc, "Allocate", loc, TRUE),
                          pred_loc),
                      loc, pred_locs, i + 1)
dirty_alloc(s, loc) ==
    LET s1 == dirty_pred_observers(s, loc)
    IN  IF ~Ok(s1) THEN s1
        ELSE dirty_alloc_loop(s1, loc, preds_alloc(s1.table[loc]), 1)

(* A set_ that writes the cell and dirties nothing. *)
set_without_dirtying(s, loc, val) ==
    IF ~Has(s, loc) THEN Panic(s, DanglingLocation)
    ELSE IF s.table[loc].kind # "Mut" THEN Panic(s, Unreachable)
    ELSE [s EXCEPT !.table[loc].val = val]

(* A set_ that dirties the predecessors whatever the value. *)
set_always_dirtying(s, loc, val) ==
    IF ~Has(s, loc) THEN Panic(s, DanglingLocation)
    ELSE IF s.table[loc].kind # "Mut" THEN Panic(s, Unreachable)
    ELSE dirty_alloc([s EXCEPT !.table[loc].val = val], loc)

(* set_: write the cell, and dirty its predecessors when the value is new. *)
set_(s, loc, val) ==
    IF ~Has(s, loc) THEN Panic(s, DanglingLocation)
    ELSE IF s.table[loc].kind # "Mut" THEN Panic(s, Unreachable)
    ELSE IF s.table[loc].val = val THEN s
    ELSE dirty_alloc([s EXCEPT !.table[loc].val = val], loc)

(* A revoke_succs that leaves the predecessor lists as they are. *)
revoke_succs_skipped(s, src, succs) == s

(* revoke_succs: src leaves the preds of every target of succs. *)
RECURSIVE revoke_succs(_, _, _)
revoke_succs(s, src, succs) ==
    IF ~Ok(s) \/ succs = <<>> THEN s
    ELSE LET tgt == Head(succs).loc
         IN  IF ~Has(s, tgt) THEN Panic(s, DanglingLocation)
             ELSE revoke_succs(
                      [s EXCEPT !.table[tgt] = preds_remove(@, src)],
                      src, Tail(succs))

(* A frame that takes a new edge in front of the others. *)
push_succ_in_front(s, succ) ==
    IF s.stack = <<>> THEN s
    ELSE [s EXCEPT !.stack[Len(s.stack)].succs = <<succ>> \o @]

(* The edge an allocation or a force appends to the running frame. *)
push_succ(s, succ) ==
    IF s.stack = <<>> THEN s
    ELSE [s EXCEPT !.stack[Len(s.stack)].succs = Append(@, succ)]

Insert(s, loc, node) ==
    [s EXCEPT !.table = [l \in DOMAIN s.table \cup {loc} |->
                            IF l = loc THEN node ELSE s.table[l]]]

-----------------------------------------------------------------------------
(* Engine::cell *)

cell_loc(s, nm) == NomLoc(s.path, nm)

cell(s, nm, val) ==
    LET loc == cell_loc(s, nm)
        isMut == Has(s, loc) /\ s.table[loc].kind = "Mut"
        isComp == Has(s, loc) /\ s.table[loc].kind = "Comp"
        do_dirty == isComp
        do_set == isMut
        succs == IF isComp THEN s.table[loc].succs ELSE <<>>
        do_insert == ~isMut
        s1 == IF do_dirty THEN dirty_alloc(s, loc) ELSE s
        s2 == IF Ok(s1) /\ do_set THEN set_(s1, loc, val) ELSE s1
        s3 == revoke_succs(s2, loc, succs)
        s4 == IF Ok(s3) /\ do_insert THEN Insert(s3, loc, MutNode(val)) ELSE s3
    IN  IF Ok(s4)
        THEN push_succ(s4, Succ(loc, "Allocate", AllocDependency(val)))
        ELSE s4

(* A set without the assertion on the stack. *)
set_unguarded(s, loc, val) == set_(s, loc, val)
(* A set that writes the cell whatever the stack. *)
set_in_place(s, loc, val) == [s EXCEPT !.table[loc].val = val]

(* Engine::set *)
set(s, loc, val) ==
    IF s.stack # <<>> THEN Panic(s, MutationDuringEvaluation)
    ELSE set_(s, loc, val)

(* Engine::thunk, ArtIdChoice::Nominal *)
thunk_loc(s, nm) == NomLoc(s.path, nm)

(* A comparison of program points that never tells two apart. *)
prog_pts_never_differ(node, pp) == TRUE
equal_producer_prog_pts(node, pp) == node.pp = pp

(* A nominal thunk call that builds its node whatever the table holds. *)
thunk_nominal_anew(s, nm, pp, arg) ==
    Insert(push_succ(s, Succ(thunk_loc(s, nm), "Allocate",
                             AllocDependency(arg))),
           thunk_loc(s, nm), CompNode(pp, arg))

thunk_nominal(s, nm, pp, arg) ==
    LET loc == thunk_loc(s, nm)
        node == s.table[loc]
        collision == Has(s, loc) /\ node.kind = "Comp"
                         /\ ~equal_producer_prog_pts(node, pp)
        replace == Has(s, loc) /\ node.kind = "Comp"
                       /\ equal_producer_prog_pts(node, pp)
                       /\ node.arg # arg
        isMut == Has(s, loc) /\ node.kind = "Mut"
        do_dirty == isMut \/ replace
        do_insert == ~Has(s, loc) \/ isMut
        s1 == IF replace
              THEN [s EXCEPT !.table[loc].arg = arg, !.table[loc].res = None]
              ELSE s
        s2 == IF do_dirty THEN dirty_alloc(s1, loc) ELSE s1
        s3 == IF Ok(s2)
              THEN push_succ(s2, Succ(loc, "Allocate", AllocDependency(arg)))
              ELSE s2
    IN  IF collision THEN Panic(s, NominalCollision)
        ELSE IF Ok(s3) /\ do_insert THEN Insert(s3, loc, CompNode(pp, arg))
        ELSE s3

(* my_hash of (prog_pt, arg): equal for equal pairs.  The 64-bit hash is  *)
(* kept as the pair it is computed from.                                  *)
my_hash(pp, arg) == <<pp, arg>>

(* A structural thunk call that builds its node whatever the table holds. *)
thunk_structural_anew(s, pp, arg) ==
    Insert(push_succ(s, Succ(StrLoc(s.path, my_hash(pp, arg)), "Allocate",
                             NoDependency)),
           StrLoc(s.path, my_hash(pp, arg)), CompNode(pp, arg))

(* Engine::thunk, ArtIdChoice::Structural *)
struct_loc(s, pp, arg) == StrLoc(s.path, my_hash(pp, arg))

(* A structural thunk call that records its edge and inserts no node. *)
thunk_structural_edge_only(s, pp, arg) ==
    IF Has(s, struct_loc(s, pp, arg)) THEN s
    ELSE push_succ(s, Succ(struct_loc(s, pp, arg), "Allocate", NoDependency))

thunk_structural(s, pp, arg) ==
    LET loc == struct_loc(s, pp, arg)
    IN  IF Has(s, loc) THEN s
        ELSE Insert(push_succ(s, Succ(loc, "Allocate", NoDependency)),
                    loc, CompNode(pp, arg))

-----------------------------------------------------------------------------
(* The client's producers.  A producer is a straight-line program over    *)
(* the engine's interface: it forces handles it captured, allocates cells *)
(* and thunks, calls set, and returns a value computed from its argument  *)
(* and from the values it forced (acc).                                   *)

IForce(nm) == [op |-> "force", name |-> nm, pp |-> "", src |-> "const", k |-> 0]
ICell(nm, src, k) == [op |-> "cell", name |-> nm, pp |-> "", src |-> src, k |-> k]
IThunk(nm, pp, src, k) == [op |-> "thunk", name |-> nm, pp |-> pp, src |-> src, k |-> k]
ISet(nm, src, k) == [op |-> "set", name |-> nm, pp |-> "", src |-> src, k |-> k]
(* thunk(Structural, pp, ..), and the force of the Art it returned *)
IStruct(pp, src, k) == [op |-> "thunk_s", name |-> "", pp |-> pp, src |-> src, k |-> k]
IForceS(pp, src, k) == [op |-> "force_s", name |-> "", pp |-> pp, src |-> src, k |-> k]
(* ns(nm, body), the body being the closure pp *)
INs(nm, pp) == [op |-> "ns", name |-> nm, pp |-> pp, src |-> "const", k |-> 0]
(* thunk(Eager, pp, ..): the closure pp is run at once, and the Art::Rc   *)
(* of its result is kept in acc; force of the Art::Rc kept at acc[k]      *)
IEager(pp, src, k) == [op |-> "thunk_e", name |-> "", pp |-> pp, src |-> src, k |-> k]
IForceRc(k) == [op |-> "force_rc", name |-> "", pp |-> "", src |-> "acc", k |-> k]
(* if x != 0 { return .. } in the client's code *)
IReturnIf(src, k) == [op |-> "return_if", name |-> "", pp |-> "", src |-> src, k |-> k]
(* assert!(x == 0) in the client's code *)
IAssertZero(src, k) == [op |-> "assert", name |-> "", pp |-> "", src |-> src, k |-> k]

Operand(ins, arg, acc) ==
    CASE ins.src = "const" -> ins.k
      [] ins.src = "arg" -> arg
      [] ins.src = "acc" -> acc[ins.k]

Max(x, y) == IF x >= y THEN x ELSE y

Prog(pp) ==
    CASE pp = "lit"  -> <<>>
      [] pp = "max"  -> <<IForce("a")>>
      [] pp = "wrap" -> <<IForce("t")>>
      [] pp = "mut"  -> <<IForce("a"), ISet("a", "const", 1)>>
      [] pp = "init" -> <<IForce("a"), ICell("b", "acc", 1), IForce("b")>>
      [] pp = "alloc" -> <<IThunk("t", "lit", "arg", 0), IForce("t")>>
      [] pp = "chk"  -> <<IForce("a"), IAssertZero("acc", 1)>>
      [] pp = "self" -> <<IThunk("s", "self", "arg", 0), IForce("s")>>
      [] pp = "memo" -> <<IStruct("max", "arg", 0), IForceS("max", "arg", 0)>>
      [] pp = "mkt"  -> <<IThunk("p", "chk", "const", 0)>>
      [] pp = "frc"  -> <<IForce("t")>>
      [] pp = "own"  -> <<IForce("a"), ICell("k", "acc", 1)>>
      [] pp = "put"  -> <<IForce("a"), ICell("b", "acc", 1)>>
      [] pp = "both" -> <<IForce("b"), IForce("k")>>
      [] pp = "outer" -> <<IForce("w")>>
      [] pp = "pair" -> <<IForce("t"), IForce("u")>>
      [] pp = "eag"  -> <<IEager("max", "arg", 0), IForceRc(1)>>
      [] pp = "nsf"  -> <<INs("n", "frc")>>
      [] pp = "mkq"  -> <<IForce("t"), IThunk("q", "nsf", "const", 0)>>
      [] pp = "rec"  -> <<IForce("a"), IReturnIf("arg", 0),
                          IThunk("s", "rec", "const", 1), IForce("s")>>

Result(pp, arg, acc) ==
    CASE pp = "lit"  -> arg
      [] pp = "max"  -> Max(acc[1], arg)
      [] pp = "wrap" -> acc[1] + arg
      [] pp = "mut"  -> acc[1]
      [] pp = "init" -> acc[2] + arg
      [] pp = "alloc" -> acc[1]
      [] pp = "chk"  -> acc[1]
      [] pp = "self" -> acc[1]
      [] pp = "memo" -> acc[1]
      [] pp = "mkt"  -> 0
      [] pp = "frc"  -> acc[1]
      [] pp = "own"  -> acc[1]
      [] pp = "put"  -> arg
      [] pp = "both" -> acc[1]
      [] pp = "outer" -> acc[1]
      [] pp = "pair" -> acc[2]
      [] pp = "eag"  -> acc[2]
      [] pp = "nsf"  -> acc[1]
      [] pp = "mkq"  -> 0
      [] pp = "rec"  -> acc[Len(acc)]

(* The handles a closure holds: those it forces or sets and does not      *)
(* allocate itself, and those of the closures it passes to thunk and ns.  *)
Holds1(pp) ==
    LET p == Prog(pp)
    IN  {p[i].name : i \in {j \in 1..Len(p) :
            /\ p[j].op \in {"force", "set"}
            /\ \A h \in 1..(j - 1) :
                  ~(p[h].op \in {"cell", "thunk"} /\ p[h].name = p[j].name)}}
Captured(pp) ==
    LET p == Prog(pp)
    IN  Holds1(pp) \cup
        UNION {Holds1(p[i].pp) : i \in {j \in 1..Len(p) :
                   p[j].op \in {"thunk", "thunk_s", "thunk_e", "ns"}}}

Handle(nm) == NomLoc(<<>>, nm)

-----------------------------------------------------------------------------
(* Activations. *)

Act0 ==
    [fn |-> "", pc |-> "", loc |-> root, res |-> 0, cache |-> 0,
     succs |-> <<>>, i |-> 0, path |-> <<>>, pp |-> "", arg |-> 0,
     acc |-> <<>>, nm |-> ""]
force_act(loc) == [Act0 EXCEPT !.fn = "force", !.pc = "start", !.loc = loc]
produce_act(loc) == [Act0 EXCEPT !.fn = "produce", !.pc = "start", !.loc = loc]
producer_act(loc, pp, arg) ==
    [Act0 EXCEPT !.fn = "producer", !.pc = "start", !.loc = loc,
                 !.pp = pp, !.arg = arg, !.i = 1]
ns_act(nm, pp, arg) ==
    [Act0 EXCEPT !.fn = "ns", !.pc = "start", !.nm = nm, !.pp = pp, !.arg = arg]
body_act(pp, arg) ==
    [Act0 EXCEPT !.fn = "body", !.pc = "run", !.pp = pp, !.arg = arg, !.i = 1]
change_prop_act(res, loc) ==
    [Act0 EXCEPT !.fn = "change_prop", !.pc = "start", !.res = res, !.loc = loc]
change_prop_comp_act(res, loc, cache, succs) ==
    [Act0 EXCEPT !.fn = "change_prop_comp", !.pc = "start", !.res = res,
                 !.loc = loc, !.cache = cache, !.succs = succs, !.i = 1]

Ret0 == [val |-> 0, changed |-> FALSE]
RetVal(v) == [val |-> v, changed |-> FALSE]
(* An EngineRes that always reports a change. *)
RetRes_always_changed(c) == [val |-> 0, changed |-> TRUE]
RetRes(c) == [val |-> 0, changed |-> c]

Top(s) == Last(s.ctl)
SetTop(s, act) == [s EXCEPT !.ctl[Len(s.ctl)] = act]
Call(s, act) == [s EXCEPT !.ctl = Append(@, act)]
Return(s, r) == [s EXCEPT !.ctl = Front(@), !.ret = r]

-----------------------------------------------------------------------------
(* Engine::force on an Art::Loc *)

(* A force whose edge holds 0 as witness, whatever the value. *)
force_finish_witness_zero(s, loc, result) ==
    Return(push_succ(s, Succ(loc, "Observe", ProducerDep(0))), RetVal(result))
(* A force that returns the value and records no edge. *)
force_finish_without_edge(s, loc, result) == Return(s, RetVal(result))
force_finish(s, loc, result) ==
    Return(push_succ(s, Succ(loc, "Observe", ProducerDep(result))),
           RetVal(result))

is_comp(node) == node.kind = "Comp"
(* A force that never finds a cached result. *)
cached_result_dropped(node) == None
cached_result(node) == IF is_comp(node) THEN node.res ELSE Some(node.val)

force_step(s) ==
    LET a == Top(s)
        loc == a.loc
        node == s.table[loc]
    IN  CASE a.pc = "start" ->
               IF ~Has(s, loc) THEN Panic(s, DanglingLocation)
               ELSE IF cached_result(node) = None
               THEN IF ~is_comp(node) THEN Panic(s, NotComp)
                    ELSE Call(SetTop(s, [a EXCEPT !.pc = "ret_produce"]),
                              produce_act(loc))
               ELSE IF is_comp(node)
               THEN Call(SetTop(s, [a EXCEPT !.pc = "ret_change_prop"]),
                         change_prop_act(Unwrap(cached_result(node)), loc))
               ELSE force_finish(s, loc, Unwrap(cached_result(node)))
          [] a.pc = "ret_produce" -> force_finish(s, loc, s.ret.val)
          [] a.pc = "ret_change_prop" ->
               IF ~Has(s, loc) THEN Panic(s, DanglingLocation)
               ELSE IF ~is_comp(node) \/ node.res = None
               THEN Panic(s, Unreachable)
               ELSE force_finish(s, loc, Unwrap(node.res))

(* produce *)
RECURSIVE install_preds(_, _, _)
install_preds(s, loc, succs) ==
    IF ~Ok(s) \/ succs = <<>> THEN s
    ELSE LET succ == Head(succs)
         IN  IF succ.dirty THEN Panic(s, DirtyNewEdge)
             ELSE IF ~Has(s, succ.loc) THEN Panic(s, DanglingLocation)
             ELSE install_preds(
                      [s EXCEPT !.table[succ.loc] =
                                    preds_insert(@, succ.effect, loc)],
                      loc, Tail(succs))

(* A produce that leaves the path of its caller to the producer. *)
producer_path_of_caller(s, loc) == s.path
(* produce: st.path = loc.path.clone() *)
producer_path(s, loc) == loc.path

produce_begin(s) ==
    LET a == Top(s)
        loc == a.loc
        node == s.table[loc]
        s1 == revoke_succs([s EXCEPT !.table[loc].succs = <<>>],
                           loc, node.succs)
        s2 == [s1 EXCEPT !.stack = Append(@, Frame(loc)),
                         !.path = producer_path(s, loc)]
    IN  IF ~Has(s, loc) THEN Panic(s, DanglingLocation)
        ELSE IF node.kind # "Comp" THEN Panic(s, Undefined)
        ELSE IF ~Ok(s1) THEN s1
        ELSE Call(SetTop(s2, [a EXCEPT !.pc = "ret_producer",
                                       !.path = s.path]),
                  producer_act(loc, node.pp, node.arg))

produce_end(s) ==
    LET a == Top(s)
        loc == a.loc
        res == s.ret.val
        frame == Last(s.stack)
        s1 == [s EXCEPT !.path = a.path, !.stack = Front(@)]
        s2 == install_preds(s1, loc, frame.succs)
    IN  IF s.stack = <<>> THEN Panic([s EXCEPT !.path = a.path], BrokenStack)
        ELSE IF frame.loc # loc THEN Panic(s1, BrokenFrame)
        ELSE IF ~Ok(s2) THEN s2
        ELSE IF ~Has(s2, loc) THEN Panic(s2, DanglingLocation)
        ELSE IF s2.table[loc].kind # "Comp" THEN Panic(s2, InternalError)
        ELSE Return([s2 EXCEPT !.table[loc].succs = frame.succs,
                               !.table[loc].res = Some(res)],
                    RetVal(res))

produce_step(s) ==
    IF Top(s).pc = "start" THEN produce_begin(s) ELSE produce_end(s)

(* The debug! lines kept in the log: "producer begin" of App::produce and *)
(* "change_prop end (1/2): loc has a changed succ dependency".            *)
producer_begin(loc, pp, arg) ==
    [ev |-> "producer begin", loc |-> loc, pp |-> pp, arg |-> arg,
     succ |-> root]
changed_succ(loc, succ_loc) ==
    [ev |-> "changed succ", loc |-> loc, pp |-> "", arg |-> 0,
     succ |-> succ_loc]

(* App::produce and the client's function *)
producer_step(s) ==
    LET a == Top(s)
        prog == Prog(a.pp)
        ins == prog[a.i]
        next == [a EXCEPT !.pc = "run", !.i = a.i + 1]
    IN  CASE a.pc = "start" ->
               SetTop([s EXCEPT !.cnt.eval = @ + 1,
                                !.log = Append(@, producer_begin(a.loc, a.pp,
                                                                 a.arg))],
                      [a EXCEPT !.pc = "run"])
          [] a.pc = "ret_force" ->
               SetTop(s, [a EXCEPT !.pc = "run", !.i = a.i + 1,
                                   !.acc = Append(@, s.ret.val)])
          [] a.pc = "run" /\ a.i > Len(prog) ->
               Return(s, RetVal(Result(a.pp, a.arg, a.acc)))
          [] a.pc = "run" /\ a.i <= Len(prog) /\ ins.op = "force" ->
               Call(SetTop(s, [a EXCEPT !.pc = "ret_force"]),
                    force_act(Handle(ins.name)))
          [] a.pc = "run" /\ a.i <= Len(prog) /\ ins.op = "cell" ->
               LET s1 == cell(s, ins.name, Operand(ins, a.arg, a.acc))
               IN  IF Ok(s1) THEN SetTop(s1, next) ELSE s1
          [] a.pc = "run" /\ a.i <= Len(prog) /\ ins.op = "thunk" ->
               LET s1 == thunk_nominal(s, ins.name, ins.pp,
                                       Operand(ins, a.arg, a.acc))
               IN  IF Ok(s1) THEN SetTop(s1, next) ELSE s1
          [] a.pc = "run" /\ a.i <= Len(prog) /\ ins.op = "set" ->
               LET s1 == set(s, Handle(ins.name), Operand(ins, a.arg, a.acc))
               IN  IF Ok(s1) THEN SetTop(s1, next) ELSE s1
          [] a.pc = "run" /\ a.i <= Len(prog) /\ ins.op = "thunk_s" ->
               SetTop(thunk_structural(s, ins.pp, Operand(ins, a.arg, a.acc)),
                      next)
          [] a.pc = "run" /\ a.i <= Len(prog) /\ ins.op = "force_s" ->
               Call(SetTop(s, [a EXCEPT !.pc = "ret_force"]),
                    force_act(struct_loc(s, ins.pp,
                                         Operand(ins, a.arg, a.acc))))
          [] a.pc = "run" /\ a.i <= Len(prog) /\ ins.op = "ns" ->
               Call(SetTop(s, [a EXCEPT !.pc = "ret_force"]),
                    ns_act(ins.name, ins.pp, a.arg))
          [] a.pc = "run" /\ a.i <= Len(prog) /\ ins.op = "thunk_e" ->
               Call(SetTop(s, [a EXCEPT !.pc = "ret_force"]),
                    body_act(ins.pp, Operand(ins, a.arg, a.acc)))
          [] a.pc = "run" /\ a.i <= Len(prog) /\ ins.op = "force_rc" ->
               SetTop(s, [next EXCEPT !.acc = Append(@, a.acc[ins.k])])
          [] a.pc = "run" /\ a.i <= Len(prog) /\ ins.op = "return_if" ->
               IF Operand(ins, a.arg, a.acc) # 0
               THEN Return(s, RetVal(Result(a.pp, a.arg, a.acc)))
               ELSE SetTop(s, next)
          [] a.pc = "run" /\ a.i <= Len(prog) /\ ins.op = "assert" ->
               IF Operand(ins, a.arg, a.acc) = 0 THEN SetTop(s, next)
               ELSE Panic(s, IF a.fn = "body" THEN BodyPanic
                             ELSE ProducerPanic)

(* Engine::ns *)
ns_step(s) ==
    LET a == Top(s)
    IN  CASE a.pc = "start" ->
               Call(SetTop([s EXCEPT !.path = Append(s.path, a.nm)],
                           [a EXCEPT !.pc = "ret_body", !.path = s.path]),
                    body_act(a.pp, a.arg))
          [] a.pc = "ret_body" ->
               Return([s EXCEPT !.path = a.path], s.ret)

(* ProducerDep::change_prop *)
change_prop_step(s) ==
    LET a == Top(s)
        loc == a.loc
        node == s.table[loc]
    IN  CASE a.pc = "start" ->
               IF ~Has(s, loc) THEN Panic(s, DanglingLocation)
               ELSE IF node.kind = "Mut"
               THEN Return(s, RetRes(node.val # a.res))
               ELSE IF node.res = None
               THEN Call(SetTop(s, [a EXCEPT !.pc = "ret_produce"]),
                         produce_act(loc))
               ELSE Call(SetTop(s, [a EXCEPT !.pc = "ret_comp"]),
                         change_prop_comp_act(a.res, loc, Unwrap(node.res),
                                              node.succs))
          [] a.pc = "ret_comp" -> Return(s, RetRes(s.ret.changed))
          [] a.pc = "ret_produce" -> Return(s, RetRes(a.res # s.ret.val))

(* What a dirty successor's dependency reports without re-entering the    *)
(* engine: NoDependency and AllocDependency.                              *)
dep_changed(dep) == dep.kind = "AllocDependency"

(* A change_prop_comp that reports no change when no successor changed,  *)
(* whatever the dependency's witness.                                     *)
changed_false(this_dep_res, cache) == FALSE
(* change_prop_comp, after the loop: let changed = this_dep.res != cache *)
changed(this_dep_res, cache) == this_dep_res # cache

(* change_prop_comp *)
change_prop_comp_step(s) ==
    LET a == Top(s)
        loc == a.loc
        succ == a.succs[a.i]
        e == get_succ_err(s, loc, succ.effect, succ.loc)
    IN  CASE a.pc = "start" ->
               SetTop([s EXCEPT !.cnt.change_prop = @ + 1],
                      [a EXCEPT !.pc = "loop"])
          [] a.pc = "loop" /\ a.i > Len(a.succs) ->
               Return(s, RetRes(changed(a.res, a.cache)))
          [] a.pc = "loop" /\ a.i <= Len(a.succs) ->
               IF e # NoErr THEN Panic(s, e)
               ELSE IF ~get_succ_dirty(s, loc, succ.effect, succ.loc)
               THEN SetTop(s, [a EXCEPT !.i = a.i + 1])
               ELSE IF succ.dep.kind = "ProducerDep"
               THEN Call(SetTop(s, [a EXCEPT !.pc = "ret_dep"]),
                         change_prop_act(succ.dep.res, succ.loc))
               ELSE SetTop([s EXCEPT !.ret = RetRes(dep_changed(succ.dep))],
                           [a EXCEPT !.pc = "ret_dep"])
          [] a.pc = "ret_dep" ->
               IF s.ret.changed
               THEN Call(SetTop([s EXCEPT !.log =
                                     Append(@, changed_succ(loc, succ.loc))],
                                [a EXCEPT !.pc = "ret_produce"]),
                         produce_act(loc))
               ELSE IF e # NoErr THEN Panic(s, e)
               ELSE SetTop(set_succ_dirty(s, loc, succ.effect, succ.loc, FALSE),
                           [a EXCEPT !.pc = "loop", !.i = a.i + 1])
          [] a.pc = "ret_produce" -> Return(s, RetRes(s.ret.val # a.res))

(* One step of the activation on top, and the run to the end of the       *)
(* top-level operation (or to the panic that ends it).                    *)
Step(s) ==
    CASE Top(s).fn = "force" -> force_step(s)
      [] Top(s).fn = "produce" -> produce_step(s)
      [] Top(s).fn = "producer" -> producer_step(s)
      [] Top(s).fn = "body" -> producer_step(s)
      [] Top(s).fn = "ns" -> ns_step(s)
      [] Top(s).fn = "change_prop" -> change_prop_step(s)
      [] Top(s).fn = "change_prop_comp" -> change_prop_comp_step(s)

RECURSIVE Run(_)
Run(s) == IF s.ctl = <<>> THEN s ELSE Run(Step(s))

-----------------------------------------------------------------------------
(* The client: the top-level operations. *)

(* What the client did last: the operation and its operands; chg: the     *)
(* set stored a new value, or the thunk replaced an argument, or the cell *)
(* replaced a CompNode; hit: the forced thunk was in memo.                *)
Last0 ==
    [op |-> "new", loc |-> root, val |-> 0, pp |-> "", arg |-> 0,
     chg |-> FALSE, hit |-> FALSE]
Done(op, loc) == [Last0 EXCEPT !.op = op, !.loc = loc]

Install(s) ==
    /\ table' = s.table
    /\ stack' = s.stack
    /\ path' = s.path
    /\ cnt' = s.cnt
    /\ ctl' = s.ctl
    /\ ret' = s.ret
    /\ err' = s.err
    /\ log' = s.log

(* The client is between two operations, and the counters are within the  *)
(* model's bounds.                                                        *)
Idle ==
    /\ ctl = <<>>
    /\ err = NoErr
    /\ cnt.eval <= MaxEval
    /\ cnt.change_prop <= MaxProp
    /\ cnt.dirty <= MaxDirt

Begin == [St EXCEPT !.log = <<>>, !.ret = Ret0]

(* Engine::new *)
Init ==
    /\ table = <<>>
    /\ stack = <<>>
    /\ path = <<>>
    /\ cnt = ZeroCnt
    /\ ctl = <<>>
    /\ ret = Ret0
    /\ err = NoErr
    /\ log = <<>>
    /\ last = Last0
    /\ mutArts = <<>>
    /\ memo = {}

Wrote(c, v) ==
    [h \in DOMAIN mutArts \cup {c} |-> IF h = c THEN v ELSE mutArts[h]]

TopCell(nm, v) ==
    /\ Idle
    /\ Install(cell(Begin, nm, v))
    /\ last' = [Done("cell", cell_loc(Begin, nm)) EXCEPT
                    !.val = v,
                    !.chg = /\ cell_loc(Begin, nm) \in DOMAIN table
                            /\ table[cell_loc(Begin, nm)].kind = "Comp"]
    /\ mutArts' = IF err' = NoErr THEN Wrote(cell_loc(Begin, nm), v)
                  ELSE mutArts
    /\ memo' = {}

TopSet(c, v) ==
    /\ Idle
    /\ c \in DOMAIN mutArts
    /\ Install(set(Begin, c, v))
    /\ last' = [Done("set", c) EXCEPT !.val = v, !.chg = table[c].val # v]
    /\ mutArts' = IF err' = NoErr THEN Wrote(c, v) ELSE mutArts
    /\ memo' = {}

(* The producer's closure captures handles: they exist when it is built. *)
TopThunk(nm, pp, arg) ==
    /\ Idle
    /\ \A h \in Captured(pp) : Handle(h) \in DOMAIN table
    /\ Install(thunk_nominal(Begin, nm, pp, arg))
    /\ last' = [Done("thunk", thunk_loc(Begin, nm)) EXCEPT
                    !.pp = pp, !.arg = arg,
                    !.chg = /\ thunk_loc(Begin, nm) \in DOMAIN table
                            /\ table[thunk_loc(Begin, nm)].kind = "Comp"
                            /\ table[thunk_loc(Begin, nm)].pp = pp
                            /\ table[thunk_loc(Begin, nm)].arg # arg]
    /\ memo' = IF thunk_loc(Begin, nm) \in DOMAIN table /\ table' # table
               THEN {} ELSE memo
    /\ UNCHANGED mutArts

(* force, run to its end in one step *)
TopForce(h) ==
    /\ Idle
    /\ h \in DOMAIN table
    /\ Install(Run(Call(Begin, force_act(h))))
    /\ last' = [Done("force", h) EXCEPT !.hit = h \in memo]
    /\ memo' = IF err' = NoErr /\ table'[h].kind = "Comp"
               THEN memo \cup {h} ELSE memo
    /\ UNCHANGED mutArts

CellNames == {"a", "t"}
ThunkDefs ==
    ({"t"} \X {"max", "lit"} \X Args) \cup {<<"u", "wrap", 0>>}

Next ==
    \/ \E nm \in CellNames, v \in Vals : TopCell(nm, v)
    \/ \E c \in DOMAIN mutArts, v \in Vals : TopSet(c, v)
    \/ \E d \in ThunkDefs : TopThunk(d[1], d[2], d[3])
    \/ \E h \in DOMAIN table : TopForce(h)

Spec == Init /\ [][Next]_vars

-----------------------------------------------------------------------------
(* The same client, with force taken one engine step at a time, and with  *)
(* producers that allocate and that call set.                             *)

ForceBegin(h) ==
    /\ Idle
    /\ h \in DOMAIN table
    /\ Install(Call(Begin, force_act(h)))
    /\ last' = [Done("force", h) EXCEPT !.hit = h \in memo]
    /\ UNCHANGED <<mutArts, memo>>

Advance ==
    /\ ctl # <<>>
    /\ Install(Step(St))
    /\ memo' = IF /\ ctl' = <<>> /\ err' = NoErr /\ last.op = "force"
                  /\ table'[last.loc].kind = "Comp"
               THEN memo \cup {last.loc} ELSE memo
    /\ UNCHANGED <<last, mutArts>>

StepCells == {"a"}
StepDefs ==
    ThunkDefs \cup {<<"k", "alloc", 1>>, <<"k", "mut", 0>>, <<"k", "init", 0>>}

NextStep ==
    \/ \E nm \in StepCells, v \in Vals : TopCell(nm, v)
    \/ \E c \in DOMAIN mutArts, v \in Vals : TopSet(c, v)
    \/ \E d \in StepDefs : TopThunk(d[1], d[2], d[3])
    \/ \E h \in DOMAIN table : ForceBegin(h)
    \/ Advance

SpecStep == Init /\ [][NextStep]_vars

-----------------------------------------------------------------------------
(* Two more clients: one that uses structural thunks (SpecStruct), and    *)
(* one that uses namespaces and whose producers may fail (an assertion of *)
(* the client's code) or force their own location (SpecFail).             *)

(* thunk(Structural, pp, arg); hit: a node was at the location. *)
TopStruct(pp, arg) ==
    /\ Idle
    /\ \A h \in Captured(pp) : Handle(h) \in DOMAIN table
    /\ Install(thunk_structural(Begin, pp, arg))
    /\ last' = [Done("thunk_s", struct_loc(Begin, pp, arg)) EXCEPT
                    !.pp = pp, !.arg = arg,
                    !.hit = struct_loc(Begin, pp, arg) \in DOMAIN table]
    /\ UNCHANGED <<mutArts, memo>>

(* ns(nm, body), the body being the closure pp *)
NsBegin(nm, pp) ==
    /\ Idle
    /\ \A h \in Captured(pp) : Handle(h) \in DOMAIN table
    /\ Install(Call(Begin, ns_act(nm, pp, 0)))
    /\ last' = [Done("ns", root) EXCEPT !.pp = pp]
    /\ UNCHANGED <<mutArts, memo>>

(* A step of the running operation; a producer that forces itself would   *)
(* recurse until the machine's stack overflows, the model stops it.       *)
AdvanceBounded ==
    /\ Len(stack) <= MaxDepth
    /\ Advance

StructDefs == {"max"} \X Args
MemoDefs == {<<"m", "memo", 0>>, <<"m", "memo", 1>>, <<"m", "eag", 0>>}

NextStruct ==
    \/ \E nm \in StepCells, v \in Vals : TopCell(nm, v)
    \/ \E c \in DOMAIN mutArts, v \in Vals : TopSet(c, v)
    \/ \E d \in MemoDefs : TopThunk(d[1], d[2], d[3])
    \/ \E d \in StructDefs : TopStruct(d[1], d[2])
    \/ \E h \in DOMAIN table : ForceBegin(h)
    \/ Advance

SpecStruct == Init /\ [][NextStruct]_vars

FailDefs == {<<"t", "chk", 0>>, <<"s", "self", 0>>, <<"k", "own", 0>>}
FailBodies == {"mkt", "frc", "chk"}

NextFail ==
    \/ \E nm \in StepCells, v \in Vals : TopCell(nm, v)
    \/ \E c \in DOMAIN mutArts, v \in Vals : TopSet(c, v)
    \/ \E d \in FailDefs : TopThunk(d[1], d[2], d[3])
    \/ \E pp \in FailBodies : NsBegin("n", pp)
    \/ \E h \in DOMAIN table : ForceBegin(h)
    \/ AdvanceBounded

SpecFail == Init /\ [][NextFail]_vars

-----------------------------------------------------------------------------
(* A client with three levels of thunks: x forces w, w forces the cell b  *)
(* and the thunk k, and k forces the cell a and allocates b anew.         *)

Calm ==
    /\ ctl = <<>>
    /\ err = NoErr
    /\ cnt.eval <= NestEval
    /\ cnt.change_prop <= NestProp
    /\ cnt.dirty <= NestDirt

NestCell(nm, v) ==
    /\ Calm
    /\ Install(cell(Begin, nm, v))
    /\ last' = [Done("cell", cell_loc(Begin, nm)) EXCEPT !.val = v]
    /\ mutArts' = IF err' = NoErr THEN Wrote(cell_loc(Begin, nm), v)
                  ELSE mutArts
    /\ UNCHANGED memo

NestSet(c, v) ==
    /\ Calm
    /\ c \in DOMAIN mutArts
    /\ Install(set(Begin, c, v))
    /\ last' = [Done("set", c) EXCEPT !.val = v, !.chg = table[c].val # v]
    /\ mutArts' = IF err' = NoErr THEN Wrote(c, v) ELSE mutArts
    /\ UNCHANGED memo

NestThunk(nm, pp, arg) ==
    /\ Calm
    /\ \A h \in Captured(pp) : Handle(h) \in DOMAIN table
    /\ Install(thunk_nominal(Begin, nm, pp, arg))
    /\ last' = [Done("thunk", thunk_loc(Begin, nm)) EXCEPT
                    !.pp = pp, !.arg = arg]
    /\ UNCHANGED <<mutArts, memo>>

NestForce(h) ==
    /\ Calm
    /\ h \in DOMAIN table
    /\ Install(Call(Begin, force_act(h)))
    /\ last' = Done("force", h)
    /\ UNCHANGED <<mutArts, memo>>

NestStep ==
    /\ ctl # <<>>
    /\ Install(Step(St))
    /\ UNCHANGED <<last, mutArts, memo>>

NestCells == {<<"a", 0>>, <<"a", 1>>, <<"b", 0>>}
NestDefs == {<<"k", "put", 0>>, <<"w", "both", 0>>, <<"x", "outer", 0>>}

NextNest ==
    \/ \E d \in NestCells : NestCell(d[1], d[2])
    \/ \E c \in DOMAIN mutArts, v \in Vals : NestSet(c, v)
    \/ \E d \in NestDefs : NestThunk(d[1], d[2], d[3])
    \/ \E h \in DOMAIN table : NestForce(h)
    \/ NestStep

SpecNest == Init /\ [][NextNest]_vars

(* A client whose thunks share a successor: r forces t and then u, and u  *)
(* forces t.                                                              *)
ShareCells == {<<"a", 0>>, <<"a", 1>>}
ShareDefs == ThunkDefs \cup {<<"r", "pair", 0>>}

NextShare ==
    \/ \E d \in ShareCells : NestCell(d[1], d[2])
    \/ \E c \in DOMAIN mutArts, v \in Vals : NestSet(c, v)
    \/ \E d \in ShareDefs : NestThunk(d[1], d[2], d[3])
    \/ \E h \in DOMAIN table : NestForce(h)
    \/ NestStep

SpecShare == Init /\ [][NextShare]_vars

(* A client whose producers use ns: q calls ns("n", ..) with a body that  *)
(* forces t, and q is allocated at the empty path and, by the body mkq of *)
(* an ns of the outer layer, under the path n.                            *)
PathDefs == {<<"t", "max", 0>>, <<"t", "lit", 1>>, <<"q", "nsf", 0>>}
PathBodies == {"mkq", "frc"}

NextPath ==
    \/ \E nm \in StepCells, v \in Vals : TopCell(nm, v)
    \/ \E c \in DOMAIN mutArts, v \in Vals : TopSet(c, v)
    \/ \E d \in PathDefs : TopThunk(d[1], d[2], d[3])
    \/ \E pp \in PathBodies : NsBegin("n", pp)
    \/ \E h \in DOMAIN table : ForceBegin(h)
    \/ Advance

SpecPath == Init /\ [][NextPath]_vars

(* A client with a thunk that allocates itself anew: the producer of s,   *)
(* run with the argument 0, calls thunk for its own name with the         *)
(* argument 1 and forces it; run with another argument it returns the     *)
(* value of the cell a.                                                   *)
RecDefs == {<<"s", "rec", 0>>, <<"s", "rec", 1>>, <<"t", "max", 0>>}

(* A step of the running operation; the change propagation of a thunk     *)
(* that observes itself would recurse until the machine's stack           *)
(* overflows, the model stops it.                                         *)
AdvanceNested ==
    /\ Len(ctl) <= MaxCtl
    /\ Advance

NextRec ==
    \/ \E nm \in StepCells, v \in Vals : TopCell(nm, v)
    \/ \E c \in DOMAIN mutArts, v \in Vals : TopSet(c, v)
    \/ \E d \in RecDefs : TopThunk(d[1], d[2], d[3])
    \/ \E h \in DOMAIN table : ForceBegin(h)
    \/ AdvanceNested

SpecRec == Init /\ [][NextRec]_vars

-----------------------------------------------------------------------------
(* The reference semantics: the value of a location computed with no      *)
(* cache, from the cells' values and the stored producers alone.          *)

RECURSIVE FromScratch(_, _)
FromScratch(tbl, loc) ==
    IF tbl[loc].kind = "Mut" THEN tbl[loc].val
    ELSE LET prog == Prog(tbl[loc].pp)
         IN  Result(tbl[loc].pp, tbl[loc].arg,
                    [i \in 1..Len(prog) |-> FromScratch(tbl, Handle(prog[i].name))])

(* How often the producer of loc ran in the operation logged in lg. *)
Runs(lg, loc) ==
    Cardinality({i \in DOMAIN lg :
                    lg[i].ev = "producer begin" /\ lg[i].loc = loc})

(* h is a cached thunk whose last evaluation forced the cell c: h holds   *)
(* an Observe edge to c and c's predecessor list holds h.                 *)
Observes(h, c) ==
    /\ h \in DOMAIN table /\ c \in DOMAIN table
    /\ table[h].kind = "Comp" /\ table[h].res # None
    /\ table[c].kind = "Mut"
    /\ \E i \in DOMAIN table[h].succs :
          table[h].succs[i].effect = "Observe" /\ table[h].succs[i].loc = c
    /\ \E j \in DOMAIN table[c].preds :
          table[c].preds[j] = [effect |-> "Observe", loc |-> h]

(* The value h observed in c the last time it ran: the edge's witness. *)
Observed(h, c) ==
    table[h].succs[get_succ_idx(table[h], "Observe", c)].dep.res

AllClean(h) == \A i \in DOMAIN table[h].succs : ~table[h].succs[i].dirty

(* What the engine holds for loc: the cell's value, the thunk's result. *)
CurVal(tbl, loc) ==
    IF tbl[loc].kind = "Mut" THEN tbl[loc].val ELSE Unwrap(tbl[loc].res)

(* The producer of h applied to its stored argument, its forces answered  *)
(* with what the engine holds.                                            *)
Applied(tbl, h) ==
    LET prog == Prog(tbl[h].pp)
    IN  Result(tbl[h].pp, tbl[h].arg,
               [i \in 1..Len(prog) |-> CurVal(tbl, Handle(prog[i].name))])

-----------------------------------------------------------------------------
(* C1: every top-level force returns the value that evaluating the        *)
(* forced location from scratch, against the current cells, returns.      *)
(* Violated: a cell allocated over a thunk, or a thunk over a cell, gets  *)
(* an empty predecessor list, and later changes no longer reach the       *)
(* thunks that observed the location.                                     *)
C1_FromScratchConsistency ==
    (last.op = "force" /\ err = NoErr) =>
        ret.val = FromScratch(table, last.loc)

(* C2: a top-level force of a thunk that was forced since the last cell,  *)
(* set or change of a thunk's argument runs no producer: the evaluation   *)
(* counter stays, and the force returns the cached result.                *)
C2_Memoization ==
    [][(last'.op = "force" /\ last'.hit) =>
          /\ err' = NoErr
          /\ cnt'.eval = cnt.eval
          /\ log' = <<>>
          /\ ret'.val = Unwrap(table[last'.loc].res)
          /\ table' = table]_vars

(* C2, reached: a thunk with dependencies was forced again and served     *)
(* from its cache.                                                        *)
C2_Witness ==
    /\ last.op = "force" /\ last.hit /\ err = NoErr
    /\ table[last.loc].succs # <<>>
    /\ log = <<>>
    /\ cnt.eval > 0

C5_ChangeAbsorbed ==
    [][/\ (/\ last'.op = "set"
           /\ last'.loc \in DOMAIN table
           /\ table[last'.loc].kind = "Mut"
           /\ table[last'.loc].val = last'.val)
          => /\ err' = NoErr
             /\ table' = table /\ cnt' = cnt
             /\ stack' = stack /\ path' = path
       /\ (/\ last.op = "set" /\ ~last.chg
           /\ last'.op = "force"
           /\ Observes(last'.loc, last.loc)
           /\ AllClean(last'.loc))
          => /\ err' = NoErr
             /\ log' = <<>>
             /\ cnt'.eval = cnt.eval]_vars

(* C5, reached: a set was absorbed by a cell that a cached thunk with     *)
(* clean edges observes, and the thunk can be forced next.                *)
C5_Witness ==
    /\ last.op = "set" /\ ~last.chg /\ Idle
    /\ cnt.eval > 0
    /\ \E h \in DOMAIN table : Observes(h, last.loc) /\ AllClean(h)

(* C5, as stated: after an absorbed set, the force of any cached thunk    *)
(* observing the cell runs no producer.  Violated when the edge was dirty *)
(* before: set(c, 1) on a cell observed as 0, then set(c, 1) once more.   *)
C5_AsStated ==
    [][(/\ last.op = "set" /\ ~last.chg
        /\ last'.op = "force"
        /\ Observes(last'.loc, last.loc))
       => /\ err' = NoErr
          /\ log' = <<>>
          /\ cnt'.eval = cnt.eval]_vars

(* C6, as amended: as long as the location of a cell handle holds a cell, *)
(* a top-level force of the handle returns the value the client wrote     *)
(* last to it by cell or set.                                             *)
C6_CellRoundTrip ==
    (/\ last.op = "force" /\ err = NoErr
     /\ last.loc \in DOMAIN mutArts
     /\ table[last.loc].kind = "Mut")
    => ret.val = mutArts[last.loc]

(* C6, reached: a handle written with a non-zero value after a set was    *)
(* forced.                                                                *)
C6_Witness ==
    /\ last.op = "force" /\ err = NoErr
    /\ last.loc \in DOMAIN mutArts
    /\ table[last.loc].kind = "Mut"
    /\ mutArts[last.loc] = MaxVal /\ ret.val = MaxVal
    /\ cnt.dirty > 0

(* C6, as stated: the force of a cell handle always returns the value     *)
(* written last by cell or set.  Violated once a thunk was allocated at   *)
(* the cell's name: the force returns the thunk's result.                 *)
C6_AsStated ==
    (/\ last.op = "force" /\ err = NoErr
     /\ last.loc \in DOMAIN mutArts)
    => ret.val = mutArts[last.loc]

-----------------------------------------------------------------------------
(* The claims about single steps of the engine, under SpecStep. *)

(* The running producer is about to execute an instruction of kind op. *)
InProducer(op) ==
    /\ ctl # <<>>
    /\ Top(St).fn = "producer" /\ Top(St).pc = "run"
    /\ Top(St).i <= Len(Prog(Top(St).pp))
    /\ Prog(Top(St).pp)[Top(St).i].op = op
Ins == Prog(Top(St).pp)[Top(St).i]

(* change_prop_comp has the answer of the dirty successor it re-demanded. *)
AtRetDep ==
    /\ ctl # <<>>
    /\ Top(St).fn = "change_prop_comp" /\ Top(St).pc = "ret_dep"
DirtySucc == Top(St).succs[Top(St).i]
Holds(tbl, loc) ==
    /\ loc \in DOMAIN tbl
    /\ tbl[loc].kind = "Comp" => tbl[loc].res # None

(* C4: in change_prop_comp of loc, when the re-demanded dirty successor   *)
(* holds the value of the edge's witness (also after being re-produced),  *)
(* the step goes on with the next successor: no producer runs and         *)
(* loc.res stays; produce(loc) is called only after a successor reported  *)
(* changed, its value differing from the witness; and when the loop ends  *)
(* without a change, loc.res is still the result cached at the start.     *)
C4_Cutoff ==
    [][/\ (/\ AtRetDep
           /\ DirtySucc.dep.kind = "ProducerDep"
           /\ Holds(table, DirtySucc.loc)
           /\ CurVal(table, DirtySucc.loc) = DirtySucc.dep.res)
          => /\ Len(ctl') = Len(ctl)
             /\ Last(ctl').pc = "loop" /\ Last(ctl').i = Top(St).i + 1
             /\ table'[Top(St).loc].res = table[Top(St).loc].res
             /\ cnt'.eval = cnt.eval
             /\ Runs(log', Top(St).loc) = Runs(log, Top(St).loc)
       /\ (/\ AtRetDep
           /\ Len(ctl') = Len(ctl) + 1
           /\ Last(ctl').fn = "produce")
          => /\ ret.changed
             /\ Last(ctl').loc = Top(St).loc
             /\ (DirtySucc.dep.kind = "ProducerDep"
                    /\ Holds(table, DirtySucc.loc))
                => CurVal(table, DirtySucc.loc) # DirtySucc.dep.res
       /\ (/\ ctl # <<>>
           /\ Top(St).fn = "change_prop_comp" /\ Top(St).pc = "loop"
           /\ Top(St).i > Len(Top(St).succs))
          => /\ table[Top(St).loc].res = Some(Top(St).cache)
             /\ table' = table /\ cnt' = cnt
             /\ ret'.changed = (Top(St).res # Top(St).cache)]_vars

(* C4, reached: a dirty successor was re-produced in this force, yielded  *)
(* the result the edge witnessed, and reported unchanged.                 *)
C4_Witness ==
    /\ AtRetDep
    /\ ~ret.changed
    /\ DirtySucc.dep.kind = "ProducerDep"
    /\ Runs(log, DirtySucc.loc) = 1
    /\ CurVal(table, DirtySucc.loc) = DirtySucc.dep.res

(* C7: a producer that calls set (the frame stack is then non-empty)      *)
(* fails with MutationDuringEvaluation, and the table (every cell's value *)
(* and every edge's dirty bit), the stack and the counters are as before. *)
C7_SetInsideProducer ==
    [][InProducer("set")
       => /\ stack # <<>>
          /\ err' = MutationDuringEvaluation
          /\ table' = table /\ cnt' = cnt
          /\ stack' = stack /\ path' = path]_vars

(* C7, reached: a producer's set has failed, its frame still on the stack. *)
C7_Witness ==
    /\ err = MutationDuringEvaluation
    /\ stack # <<>>
    /\ table[Last(stack).loc].pp = "mut"

C9_NominalCollision ==
    [][/\ (/\ ctl = <<>> /\ last'.op = "thunk"
           /\ last'.loc \in DOMAIN table
           /\ table[last'.loc].kind = "Comp"
           /\ table[last'.loc].pp # last'.pp)
          => /\ err' = NominalCollision
             /\ table' = table /\ cnt' = cnt
             /\ stack' = stack /\ path' = path
       /\ (/\ InProducer("thunk")
           /\ thunk_loc(St, Ins.name) \in DOMAIN table
           /\ table[thunk_loc(St, Ins.name)].kind = "Comp"
           /\ table[thunk_loc(St, Ins.name)].pp # Ins.pp)
          => /\ err' = NominalCollision
             /\ table' = table /\ cnt' = cnt
             /\ stack' = stack /\ path' = path]_vars

(* C9, reached: a producer's thunk call has collided with a cached thunk  *)
(* of another program point; its frame holds no edge.                     *)
C9_Witness ==
    /\ err = NominalCollision
    /\ stack # <<>>
    /\ Last(stack).succs = <<>>
    /\ table[Handle("t")].pp = "max"
    /\ table[Handle("t")].res # None

-----------------------------------------------------------------------------
(* The claims about structural thunks, under SpecStruct. *)

(* C11: a structural thunk call, by the outer layer or by a producer, for *)
(* a program point and an argument whose node exists at the current path  *)
(* returns that node's location and leaves the table (no node created or  *)
(* replaced; result, edges and predecessors kept), the frames, the path   *)
(* and the counters as they were.                                         *)
C11_StructuralIdempotence ==
    [][/\ (/\ ctl = <<>> /\ last'.op = "thunk_s"
           /\ struct_loc(St, last'.pp, last'.arg) \in DOMAIN table)
          => /\ err' = NoErr
             /\ last'.loc = struct_loc(St, last'.pp, last'.arg)
             /\ table' = table /\ cnt' = cnt
             /\ stack' = stack /\ path' = path
       /\ (/\ InProducer("thunk_s")
           /\ struct_loc(St, Ins.pp, Operand(Ins, Top(St).arg, Top(St).acc))
                  \in DOMAIN table)
          => /\ err' = NoErr
             /\ table' = table /\ cnt' = cnt
             /\ stack' = stack /\ path' = path]_vars

(* C11, reached: the outer layer has called thunk(Structural, ..) for a   *)
(* node that holds a result, edges and a predecessor.                     *)
C11_Witness ==
    /\ last.op = "thunk_s" /\ last.hit /\ err = NoErr
    /\ table[last.loc].res # None
    /\ table[last.loc].succs # <<>>
    /\ table[last.loc].preds # <<>>

-----------------------------------------------------------------------------
(* The claims about the shape of the graph. *)

HasPred(tbl, v, eff, u) ==
    /\ v \in DOMAIN tbl
    /\ \E j \in DOMAIN tbl[v].preds :
          tbl[v].preds[j] = [effect |-> eff, loc |-> u]
HasSucc(tbl, u, eff, v) ==
    /\ u \in DOMAIN tbl
    /\ tbl[u].kind = "Comp"
    /\ \E i \in DOMAIN tbl[u].succs :
          tbl[u].succs[i].effect = eff /\ tbl[u].succs[i].loc = v

(* C12: after every top-level operation that completed, every edge in the *)
(* succs of a CompNode u, of effect e and target v, has its reverse: the  *)
(* preds of the node at v hold (e, u).  Violated: a cell allocated over a *)
(* thunk (and a thunk over a cell) gets an empty predecessor list, while  *)
(* the edges into the location stay in their sources.                     *)
C12_ForwardSymmetry ==
    (ctl = <<>> /\ err = NoErr) =>
        \A u \in DOMAIN table :
            table[u].kind = "Comp" =>
                \A i \in DOMAIN table[u].succs :
                    HasPred(table, table[u].succs[i].loc,
                            table[u].succs[i].effect, u)

(* C13: in every state, every entry (e, u) of the preds of a node v has   *)
(* its edge: u is a CompNode whose succs hold an edge of effect e and     *)
(* target v; and no edge lookup has failed.  Violated: produce installs   *)
(* the reverse entries of the frame's edges before it finds out that its  *)
(* location holds no CompNode any more (its producer allocated a cell at  *)
(* the location).                                                         *)
C13_ReverseSymmetry ==
    /\ \A v \in DOMAIN table :
          \A j \in DOMAIN table[v].preds :
              HasSucc(table, table[v].preds[j].loc,
                      table[v].preds[j].effect, v)
    /\ err \notin {DanglingEdge, DanglingLocation, Undefined, RootInPreds}

(* The points at which wf::check_dcg is called: between two calls of the  *)
(* outer layer, and between two calls of the running client function.     *)
OpPoint ==
    \/ ctl = <<>>
    \/ Top(St).fn \in {"producer", "body"} /\ Top(St).pc = "run"

HasDirtySucc(tbl, v) ==
    /\ tbl[v].kind = "Comp"
    /\ \E i \in DOMAIN tbl[v].succs : tbl[v].succs[i].dirty

(* wf::dirty, for every node with a dirty edge: the edge of every Observe *)
(* predecessor is dirty.                                                  *)
wf_dirty(s) ==
    \A v \in DOMAIN s.table :
        HasDirtySucc(s.table, v) =>
            \A j \in DOMAIN s.table[v].preds :
                s.table[v].preds[j].effect = "Observe" =>
                    /\ get_succ_err(s, s.table[v].preds[j].loc, "Observe", v)
                           = NoErr
                    /\ get_succ_dirty(s, s.table[v].preds[j].loc, "Observe", v)

(* C14: where an operation of the engine begins or ends, a node with a    *)
(* dirty outgoing edge has all the Observe edges into it dirty: those its *)
(* predecessor list names (the walk of wf::dirty, which then finds no     *)
(* clean edge), and those stored in any CompNode.  Violated: a producer   *)
(* that allocates a cell anew dirties an edge of a thunk whose change     *)
(* propagation is under way; the propagation ends, and the thunk's        *)
(* observer cleans its edge to it.                                        *)
C14_DirtyClosure ==
    (OpPoint /\ err = NoErr) =>
        /\ wf_dirty(St)
        /\ \A u \in DOMAIN table, v \in DOMAIN table :
              (HasSucc(table, u, "Observe", v) /\ HasDirtySucc(table, v))
              => get_succ_dirty(St, u, "Observe", v)

-----------------------------------------------------------------------------
(* The claims about failures, under SpecFail. *)

(* The activation of ns whose body is running on top. *)
NsRunning ==
    /\ Len(ctl) >= 2
    /\ ctl[Len(ctl) - 1].fn = "ns"
    /\ Top(St).fn = "body"

(* C15: the body of ns(name, body) starts with the path of the call       *)
(* extended by name; and when ns is over, by a return or by a panic, the  *)
(* path is the path of the call (the outer layer calls ns with the empty  *)
(* path).  Violated: a panic in the body leaves the extended path.        *)
C15_NsRestoresPath ==
    /\ (NsRunning /\ Top(St).i = 1)
          => path = Append(ctl[Len(ctl) - 1].path, ctl[Len(ctl) - 1].nm)
    /\ (last.op = "ns" /\ ctl = <<>>) => path = <<>>

(* C16: when a producer has panicked, the CompNode of every production   *)
(* the panic ends (every frame of the stack) has no result and no succs.  *)
(* Violated: produce empties succs before it runs the producer, and it    *)
(* writes res only after the producer has returned, so the result of the  *)
(* previous production stays.                                             *)
C16_FailedProduceClearsNode ==
    err = ProducerPanic =>
        \A i \in DOMAIN stack :
            /\ table[stack[i].loc].res = None
            /\ table[stack[i].loc].succs = <<>>

(* C17: when a producer has panicked in a force of the outer layer, the   *)
(* frames of the productions the panic ends are off the stack, the path   *)
(* is the path of before the force (the empty one), and no edge of these  *)
(* frames is in a node's succs or preds.  Violated: nothing pops the      *)
(* frame or restores the path when the producer unwinds.                  *)
C17_FailedProduceUnwinds ==
    (err = ProducerPanic /\ last.op = "force") =>
        /\ stack = <<>>
        /\ path = <<>>
        /\ \A i \in DOMAIN stack :
              /\ table[stack[i].loc].succs = <<>>
              /\ \A v \in DOMAIN table :
                    \A j \in DOMAIN table[v].preds :
                        table[v].preds[j].loc # stack[i].loc

(* C18: in every state the frames of the stack have different locations. *)
(* Violated: the force of a thunk without result calls produce, which     *)
(* pushes a frame, whether or not the location is under production.       *)
C18_FrameUniqueness ==
    \A i \in DOMAIN stack, j \in DOMAIN stack :
        stack[i].loc = stack[j].loc => i = j

-----------------------------------------------------------------------------
(* The claims about the dirty bits, under SpecNest. *)

(* C19: every edge in a frame of the stack is clean, in every state, and  *)
(* produce never finds a dirty edge in the frame it pops.                 *)
C19_FrameEdgesClean ==
    /\ \A i \in DOMAIN stack :
          \A j \in DOMAIN stack[i].succs : ~stack[i].succs[j].dirty
    /\ err # DirtyNewEdge

(* C19, reached: a producer under re-production has called cell on an     *)
(* existing cell; the dirtying has marked the edge of an observer of the  *)
(* cell, and the producer's frame holds its edges to the same cell.       *)
C19_Witness ==
    /\ stack # <<>>
    /\ cnt.dirty > 0
    /\ \E j \in DOMAIN Last(stack).succs :
          /\ Last(stack).succs[j].effect = "Allocate"
          /\ \E u \in DOMAIN table :
                /\ HasSucc(table, u, "Observe", Last(stack).succs[j].loc)
                /\ get_succ_dirty(St, u, "Observe", Last(stack).succs[j].loc)
                /\ table[u].res # None
                /\ Unwrap(table[u].res) # table[Last(stack).succs[j].loc].val

(* change_prop_comp is about to return: its loop is over, or the          *)
(* re-production it called has returned.                                  *)
PropCompEnds ==
    /\ ctl # <<>>
    /\ Top(St).fn = "change_prop_comp"
    /\ \/ Top(St).pc = "loop" /\ Top(St).i > Len(Top(St).succs)
       \/ Top(St).pc = "ret_produce"

(* C20: when change_prop_comp of loc returns, no edge in loc.succs is     *)
(* dirty.  Violated: the loop reads each edge once, in order; an edge it  *)
(* has passed and that a re-produced successor dirties (by allocating a   *)
(* cell anew) is dirty when the loop ends.                                *)
C20_CleanAfterPropagation ==
    [][PropCompEnds =>
          \A i \in DOMAIN table'[Top(St).loc].succs :
              ~table'[Top(St).loc].succs[i].dirty]_vars

-----------------------------------------------------------------------------
(* The claims about change propagation, step by step. *)

(* The locations that the stored succs lead to from the locations of      *)
(* seen, whatever the effect of the edges.                                *)
RECURSIVE Reachable(_, _)
Reachable(tbl, seen) ==
    LET more == UNION {{tbl[u].succs[i].loc : i \in 1..Len(tbl[u].succs)} :
                          u \in {w \in seen \cap DOMAIN tbl :
                                    tbl[w].kind = "Comp"}}
    IN  IF more \subseteq seen THEN seen ELSE Reachable(tbl, seen \cup more)

(* wf::clean: no edge of loc or of a node its succs lead to is dirty. *)
wf_clean(tbl, loc) ==
    \A v \in Reachable(tbl, {loc}) \cap DOMAIN tbl : ~HasDirtySucc(tbl, v)

(* C21: when change_prop_comp of loc returns, no node that the stored     *)
(* succs lead to from loc (loc included) has a dirty edge.  Violated: the *)
(* loop passes a clean edge, a successor re-produced later in the loop    *)
(* allocates the edge's target anew and so dirties the edge, and the loop *)
(* ends without a change.                                                 *)
C21_TransitivelyClean ==
    [][PropCompEnds => wf_clean(table', Top(St).loc)]_vars

(* C22: when change_prop_comp has the answer for a dirty Observe edge     *)
(* (ProducerDep::change_prop has returned), the answer is changed exactly *)
(* when what the target holds now, a cell its value and a CompNode its    *)
(* result, differs from the edge's witness.                               *)
C22_ChangedIffDiffers ==
    (AtRetDep /\ DirtySucc.effect = "Observe" /\ err = NoErr) =>
        /\ Holds(table, DirtySucc.loc)
        /\ ret.changed = (CurVal(table, DirtySucc.loc) # DirtySucc.dep.res)

(* C22, reached: the producer of r has forced t, which was produced anew  *)
(* for r in this operation; it now forces u, and the change propagation   *)
(* of u has found its edge to t dirty and t's result different from the   *)
(* edge's witness.                                                        *)
C22_Witness ==
    /\ AtRetDep /\ DirtySucc.effect = "Observe" /\ err = NoErr
    /\ table[DirtySucc.loc].kind = "Comp"
    /\ ret.changed
    /\ table[Top(St).loc].pp = "wrap"
    /\ Runs(log, DirtySucc.loc) = 1
    /\ stack # <<>>
    /\ table[Last(stack).loc].pp = "pair"
    /\ \E j \in DOMAIN Last(stack).succs :
          Last(stack).succs[j].loc = DirtySucc.loc

(* The effect and the target of the edge that a producer's force, cell or *)
(* thunk (Nominal) appends to its frame, the path being pth.              *)
EdgeOf(ins, pth) ==
    IF ins.op = "force"
    THEN [effect |-> "Observe", loc |-> Handle(ins.name)]
    ELSE [effect |-> "Allocate", loc |-> NomLoc(pth, ins.name)]

(* produce has the producer's result and is about to install the frame. *)
ProduceEnds ==
    /\ ctl # <<>>
    /\ Top(St).fn = "produce" /\ Top(St).pc = "ret_producer"

(* C23: (a) the succs that produce stores are the edges of the producer's *)
(* effects, in the order of the effects; (b) change_prop_comp walks the   *)
(* succs stored when it began, from the first on, one index at a time,    *)
(* and it re-demands (ProducerDep::change_prop) the edge at its index     *)
(* only, which is then dirty; (c) when a successor has reported changed,  *)
(* it calls produce and returns what produce returns: it re-demands no    *)
(* other successor.                                                       *)
C23_Ordering ==
    [][/\ (ProduceEnds /\ err' = NoErr)
          => /\ Len(table'[Top(St).loc].succs)
                    = Len(Prog(table'[Top(St).loc].pp))
             /\ \A j \in DOMAIN table'[Top(St).loc].succs :
                   /\ table'[Top(St).loc].succs[j].effect
                          = EdgeOf(Prog(table'[Top(St).loc].pp)[j],
                                   Top(St).loc.path).effect
                   /\ table'[Top(St).loc].succs[j].loc
                          = EdgeOf(Prog(table'[Top(St).loc].pp)[j],
                                   Top(St).loc.path).loc
       /\ \A p \in DOMAIN ctl :
             ctl[p].fn = "change_prop_comp" =>
                /\ ctl[p].pc = "start"
                      => ctl[p].i = 1 /\ ctl[p].succs = table[ctl[p].loc].succs
                /\ p \in DOMAIN ctl'
                      => /\ ctl'[p].succs = ctl[p].succs
                         /\ ctl'[p].i \in {ctl[p].i, ctl[p].i + 1}
                         /\ ctl[p].pc = "ret_produce" => ctl'[p] = ctl[p]
       /\ (/\ ctl # <<>> /\ Top(St).fn = "change_prop_comp"
           /\ Len(ctl') = Len(ctl) + 1
           /\ Last(ctl').fn = "change_prop")
          => /\ Top(St).pc = "loop"
             /\ ctl'[Len(ctl)].i = Top(St).i
             /\ Last(ctl').loc = DirtySucc.loc
             /\ Last(ctl').res = DirtySucc.dep.res
             /\ get_succ_dirty(St, Top(St).loc, DirtySucc.effect,
                               DirtySucc.loc)
       /\ (AtRetDep /\ ret.changed)
          => /\ Len(ctl') = Len(ctl) + 1
             /\ Last(ctl') = produce_act(Top(St).loc)
             /\ ctl'[Len(ctl)].pc = "ret_produce"
       /\ (/\ ctl # <<>> /\ Top(St).fn = "change_prop_comp"
           /\ Top(St).pc = "ret_produce")
          => /\ Len(ctl') < Len(ctl)
             /\ err' = NoErr => ret'.changed = (ret.val # Top(St).res)]_vars

(* C23, reached: the first successor of a node with two dirty edges has  *)
(* reported changed; the second one, recorded after it, is still dirty.   *)
C23_Witness ==
    /\ AtRetDep /\ ret.changed /\ err = NoErr
    /\ Top(St).i = 1 /\ Len(Top(St).succs) = 2
    /\ Top(St).succs[1].loc # Top(St).succs[2].loc
    /\ table[Top(St).loc].succs = Top(St).succs
    /\ get_succ_dirty(St, Top(St).loc, "Observe", Top(St).succs[2].loc)

-----------------------------------------------------------------------------
(* The claims about the edges of the running frame. *)

(* The client's function on top, a producer or a closure it runs (the     *)
(* body of ns, the function of an Eager thunk), is about to make a call   *)
(* of kind op.                                                            *)
InClient(op) ==
    /\ ctl # <<>>
    /\ Top(St).fn \in {"producer", "body"} /\ Top(St).pc = "run"
    /\ Top(St).i <= Len(Prog(Top(St).pp))
    /\ Prog(Top(St).pp)[Top(St).i].op = op

(* thunk(Structural, ..) is called for a location that holds a node. *)
StructExists ==
    /\ InClient("thunk_s")
    /\ struct_loc(St, Ins.pp, Operand(Ins, Top(St).arg, Top(St).acc))
           \in DOMAIN table

(* The force on top returns in this step. *)
ForceReturns ==
    /\ ctl # <<>>
    /\ Top(St).fn = "force"
    /\ Len(ctl') = Len(ctl) - 1

(* This step appends one edge to the top frame and leaves the rest of the *)
(* stack as it is.                                                        *)
OneEdgeMore ==
    /\ Len(stack') = Len(stack)
    /\ Front(stack') = Front(stack)
    /\ Last(stack').loc = Last(stack).loc
    /\ Len(Last(stack').succs) = Len(Last(stack).succs) + 1
    /\ Front(Last(stack').succs) = Last(stack).succs

(* C24, as amended: with a frame on the stack, every cell call, every     *)
(* thunk(Nominal) call, every thunk(Structural) call that finds no node   *)
(* and every force of an Art::Loc appends exactly one edge to the top     *)
(* frame as it completes; a thunk(Structural) call that finds a node, a   *)
(* thunk(Eager) call and a force of an Art::Rc append none; and no other  *)
(* step changes a frame (a step that changes the stack pushes an empty    *)
(* frame or pops the top one).                                            *)
C24_OneEdgePerEffect ==
    [][/\ (/\ stack # <<>> /\ err' = NoErr
           /\ \/ InClient("cell") \/ InClient("thunk")
              \/ InClient("thunk_s") /\ ~StructExists
              \/ ForceReturns)
          => OneEdgeMore
       /\ (StructExists \/ InClient("thunk_e") \/ InClient("force_rc"))
          => stack' = stack
       /\ ~(\/ InClient("cell") \/ InClient("thunk") \/ InClient("thunk_s")
            \/ ForceReturns)
          => \/ stack' = stack
             \/ \E l \in DOMAIN table : stack' = Append(stack, Frame(l))
             \/ stack # <<>> /\ stack' = Front(stack)]_vars

(* C24, reached: a producer made a thunk(Structural) call that found the  *)
(* node and appended nothing, and then forced the node, which appended    *)
(* the one edge of its frame.                                             *)
C24_Witness ==
    /\ ctl # <<>> /\ stack # <<>> /\ err = NoErr
    /\ Top(St).fn = "producer" /\ Top(St).pp = "memo"
    /\ Top(St).pc = "run" /\ Top(St).i = 3
    /\ Len(Last(stack).succs) = 1
    /\ Last(stack).succs[1].effect = "Observe"

(* C24, as stated: with a frame on the stack, every cell call, every      *)
(* thunk call of whatever mode, on a new or on an existing node, and      *)
(* every force appends exactly one edge to the top frame.  Violated by a  *)
(* thunk(Structural) call for a location that holds a node: it returns    *)
(* before the edge is pushed.                                             *)
C24_AsStated ==
    [][(/\ stack # <<>> /\ err' = NoErr
        /\ \/ InClient("cell") \/ InClient("thunk") \/ InClient("thunk_s")
           \/ InClient("force_rc") \/ ForceReturns)
       => OneEdgeMore]_vars

(* C25: a force of an Art::Loc that returns with a frame on the stack     *)
(* appends to the top frame a clean Observe edge to the forced location,  *)
(* whose witness is the value returned; and the value returned is what    *)
(* the node at the location holds when the force returns: a cell's value, *)
(* a CompNode's result.                                                   *)
C25_ForceEdgeWitness ==
    [][(ForceReturns /\ stack # <<>> /\ err' = NoErr)
       => /\ OneEdgeMore
          /\ Last(Last(stack').succs)
                 = Succ(Top(St).loc, "Observe", ProducerDep(ret'.val))
          /\ Holds(table', Top(St).loc)
          /\ ret'.val = CurVal(table', Top(St).loc)]_vars

(* C25, reached: a producer has got the value of its force of a thunk     *)
(* that was produced in this operation, a value other than 0, and its     *)
(* frame ends with the Observe edge whose witness is that value.          *)
C25_Witness ==
    /\ ctl # <<>> /\ stack # <<>> /\ err = NoErr
    /\ Top(St).fn = "producer" /\ Top(St).pc = "ret_force"
    /\ Prog(Top(St).pp)[Top(St).i].op = "force"
    /\ Last(stack).succs # <<>>
    /\ Last(Last(stack).succs).effect = "Observe"
    /\ Last(Last(stack).succs).dep = ProducerDep(ret.val)
    /\ table[Last(Last(stack).succs).loc].kind = "Comp"
    /\ Runs(log, Last(Last(stack).succs).loc) = 1
    /\ ret.val # 0

-----------------------------------------------------------------------------
(* The claims about dirtying. *)

(* The edge at index i of u.succs is clean in tbl1 and dirty in tbl2. *)
Dirtied(tbl1, tbl2, u, i) ==
    /\ u \in DOMAIN tbl1 /\ u \in DOMAIN tbl2
    /\ tbl1[u].kind = "Comp" /\ tbl2[u].kind = "Comp"
    /\ i \in DOMAIN tbl1[u].succs /\ i \in DOMAIN tbl2[u].succs
    /\ tbl2[u].succs[i].loc = tbl1[u].succs[i].loc
    /\ tbl2[u].succs[i].effect = tbl1[u].succs[i].effect
    /\ ~tbl1[u].succs[i].dirty
    /\ tbl2[u].succs[i].dirty

(* C26: in every step that turns a clean edge dirty, the frame stack is   *)
(* empty.  Violated: cell and thunk, unlike set, do not look at the       *)
(* stack; a producer's thunk call with a new argument (and its cell call  *)
(* on an existing cell) runs dirty_alloc with the producer's frame on the *)
(* stack.                                                                 *)
C26_DirtyingOutsideProducers ==
    [][(\E u \in DOMAIN table :
           \E i \in DOMAIN table[u].succs : Dirtied(table, table', u, i))
       => stack = <<>>]_vars

(* The edges that are clean in tbl1 and dirty in tbl2. *)
DirtiedEdges(tbl1, tbl2, eff) ==
    {e \in UNION {{<<u, i>> : i \in DOMAIN tbl1[u].succs} : u \in DOMAIN tbl1} :
        /\ Dirtied(tbl1, tbl2, e[1], e[2])
        /\ tbl1[e[1]].succs[e[2]].effect = eff}

(* The number of clean Observe edges in tbl. *)
CleanEdges(tbl) ==
    Cardinality({e \in UNION {{<<u, i>> : i \in DOMAIN tbl[u].succs} :
                                 u \in DOMAIN tbl} :
                    /\ tbl[e[1]].succs[e[2]].effect = "Observe"
                    /\ ~tbl[e[1]].succs[e[2]].dirty})

(* C27: every run of dirty_pred_observers and of dirty_alloc ends, and    *)
(* it marks an edge at most once: in every step, the number of edges the  *)
(* dirtying counted as marked (cnt.dirty) is the number of Observe edges  *)
(* that were clean before the step and are dirty after it, which is at    *)
(* most the number of clean edges there were; and no lookup of the        *)
(* dirtying of a cell, set or thunk call of the outer layer fails.        *)
C27_DirtyingTerminates ==
    [][/\ cnt'.dirty = cnt.dirty
                         + Cardinality(DirtiedEdges(table, table', "Observe"))
       /\ cnt'.dirty <= cnt.dirty + CleanEdges(table)
       /\ (ctl = <<>> /\ last'.op \in {"cell", "set", "thunk"})
             => err' \notin {DanglingLocation, DanglingEdge, Undefined,
                              RootInPreds}]_vars

(* C27, reached: a set has changed a cell below a chain of two Observe    *)
(* edges; both edges are dirty, and they are all the edges that were ever *)
(* marked.                                                                *)
C27_Witness ==
    /\ last.op = "set" /\ last.chg /\ err = NoErr
    /\ cnt.dirty = 2
    /\ \E t \in DOMAIN table, u \in DOMAIN table :
          /\ HasSucc(table, t, "Observe", last.loc)
          /\ HasSucc(table, u, "Observe", t)
          /\ get_succ_dirty(St, t, "Observe", last.loc)
          /\ get_succ_dirty(St, u, "Observe", t)
          /\ table[t].res # None /\ table[u].res # None

(* The locations from which the stored Observe edges lead to a location   *)
(* of seen (seen included).                                               *)
RECURSIVE ObserversOf(_, _)
ObserversOf(tbl, seen) ==
    LET more == {u \in DOMAIN tbl :
                    \E v \in seen : HasSucc(tbl, u, "Observe", v)}
    IN  IF more \subseteq seen THEN seen ELSE ObserversOf(tbl, seen \cup more)

(* C28: after a set of the outer layer that changed the cell c, every     *)
(* CompNode u that holds an Observe edge to c, or to a node from which    *)
(* stored Observe edges lead to c, has that edge dirty (the edge that     *)
(* get_succ_mut finds for the target).  Violated: dirty_pred_observers    *)
(* walks the predecessor lists, and a thunk allocated at the location of  *)
(* a cell starts with an empty one, while the edges into the location     *)
(* stay in their sources.                                                 *)
C28_SetDirtiesObservers ==
    (last.op = "set" /\ last.chg /\ err = NoErr) =>
        \A v \in ObserversOf(table, {last.loc}) :
            \A u \in DOMAIN table :
                HasSucc(table, u, "Observe", v)
                    => get_succ_dirty(St, u, "Observe", v)

-----------------------------------------------------------------------------
(* The claims about the allocation over an existing node. *)

SameThunk(tbl, loc, pp, arg) ==
    /\ loc \in DOMAIN tbl
    /\ tbl[loc].kind = "Comp"
    /\ tbl[loc].pp = pp
    /\ tbl[loc].arg = arg

(* C30: a thunk(Nominal) call at a CompNode of the same program point and *)
(* the same argument leaves the table, the path and the counters as they  *)
(* are; called by the outer layer it leaves the stack too, and called by  *)
(* a producer it appends to the top frame one clean Allocate edge to the  *)
(* location, with the argument as witness.                                *)
C30_SameArgumentThunk ==
    [][/\ (/\ ctl = <<>> /\ last'.op = "thunk"
           /\ SameThunk(table, last'.loc, last'.pp, last'.arg))
          => /\ err' = NoErr
             /\ table' = table /\ cnt' = cnt
             /\ stack' = stack /\ path' = path
       /\ (/\ InClient("thunk")
           /\ SameThunk(table, thunk_loc(St, Ins.name), Ins.pp,
                        Operand(Ins, Top(St).arg, Top(St).acc)))
          => /\ err' = NoErr
             /\ table' = table /\ cnt' = cnt /\ path' = path
             /\ stack # <<>> => 
                   /\ OneEdgeMore
                   /\ Last(Last(stack').succs)
                          = Succ(thunk_loc(St, Ins.name), "Allocate",
                                 AllocDependency(Operand(Ins, Top(St).arg,
                                                         Top(St).acc)))
             /\ stack = <<>> => stack' = stack]_vars

(* C30, reached: a producer has called thunk for a node that holds this   *)
(* program point and argument, a result and an observer with a clean      *)
(* edge; its frame holds the Allocate edge.                               *)
C30_Witness ==
    /\ ctl # <<>> /\ stack # <<>> /\ err = NoErr
    /\ Top(St).fn = "producer" /\ Top(St).pp = "alloc"
    /\ Top(St).pc = "run" /\ Top(St).i = 2
    /\ Last(stack).succs
           = <<Succ(Handle("t"), "Allocate", AllocDependency(Top(St).arg))>>
    /\ SameThunk(table, Handle("t"), "lit", Top(St).arg)
    /\ table[Handle("t")].res # None
    /\ \E u \in DOMAIN table :
          /\ HasSucc(table, u, "Observe", Handle("t"))
          /\ HasPred(table, Handle("t"), "Observe", u)
          /\ ~get_succ_dirty(St, u, "Observe", Handle("t"))

-----------------------------------------------------------------------------
(* The claims about the path and the stack, under SpecPath. *)

(* The path the running functions call for: that of the location of the   *)
(* innermost production whose producer has been called, extended by the   *)
(* names of the ns calls whose bodies have been called since.             *)
RECURSIVE ExpPath(_)
ExpPath(c) ==
    IF c = <<>> THEN <<>>
    ELSE LET a == Last(c)
         IN  IF a.fn = "produce" /\ a.pc = "ret_producer" THEN a.loc.path
             ELSE IF a.fn = "ns" /\ a.pc = "ret_body"
             THEN Append(ExpPath(Front(c)), a.nm)
             ELSE ExpPath(Front(c))

(* The code of a producer, or of a body its producer has called, is on    *)
(* top.                                                                   *)
ProducerRuns ==
    /\ ctl # <<>> /\ stack # <<>>
    /\ Top(St).fn \in {"producer", "body"}

(* C31: as long as nothing has failed, the path is the path of the        *)
(* location of the innermost running producer, extended by the names of   *)
(* the ns calls this producer is inside (it is the location's path while  *)
(* the producer is inside no ns, whatever the path of the caller of       *)
(* force); so when produce or ns returns, the path is what it was at the  *)
(* call.                                                                  *)
C31_PathOfProducer ==
    err = NoErr => path = ExpPath(ctl)

(* C31, reached: under the path n the producer of n/q has called ns, the  *)
(* body has forced t, and the producer of t runs with the empty path.     *)
C31_Witness ==
    /\ ProducerRuns /\ err = NoErr
    /\ Top(St).fn = "producer" /\ Top(St).loc = Handle("t")
    /\ Top(St).pc = "run"
    /\ path = <<>>
    /\ \E i \in DOMAIN ctl :
          /\ ctl[i].fn = "ns" /\ ctl[i].pc = "ret_body"
          /\ ctl[i].path = <<"n">>
    /\ stack[1].loc = NomLoc(<<"n">>, "q")

(* C31 as stated: while the producer of loc runs, the path is loc's path. *)
(* Violated: inside an ns called by the producer the path is extended.    *)
C31_AsStated ==
    (ProducerRuns /\ err = NoErr) => path = Last(stack).loc.path

-----------------------------------------------------------------------------
(* The claim about dangling locations. *)

(* The targets of a list of edges. *)
Targets(succs) == {succs[i].loc : i \in DOMAIN succs}

(* The handles the client holds: those of its cells, those of the thunks  *)
(* it forced, and the one the last cell or thunk call returned; and the   *)
(* locations the running functions hold.                                  *)
ClientHandles ==
    DOMAIN mutArts \cup memo
    \cup (IF last.op \in {"cell", "thunk", "thunk_s"} /\ err = NoErr
          THEN {last.loc} ELSE {})
RunningLocs ==
    UNION {{ctl[i].loc} \cup Targets(ctl[i].succs) :
              i \in {j \in DOMAIN ctl :
                        ctl[j].fn \in {"force", "produce", "producer",
                                       "change_prop", "change_prop_comp"}}}

(* C32: in every state the handles of the client, the locations the       *)
(* running functions hold, the targets of the edges of every node and of  *)
(* every frame, the entries of every predecessor list and the locations   *)
(* of the frames are locations of the table; and no lookup fails with     *)
(* "dangling pointer".                                                    *)
C32_NoDanglingLocation ==
    /\ err # DanglingLocation
    /\ ClientHandles \subseteq DOMAIN table
    /\ RunningLocs \subseteq DOMAIN table
    /\ \A u \in DOMAIN table :
          /\ Targets(table[u].succs) \subseteq DOMAIN table
          /\ Targets(table[u].preds) \subseteq DOMAIN table
    /\ \A i \in DOMAIN stack :
          /\ stack[i].loc \in DOMAIN table
          /\ Targets(stack[i].succs) \subseteq DOMAIN table

(* C32, reached: a producer has allocated a structural thunk; its frame   *)
(* holds the Allocate edge to the new node, and another node of the table *)
(* has a successor and a predecessor.                                     *)
C32_Witness ==
    /\ stack # <<>> /\ ctl # <<>> /\ err = NoErr
    /\ \E j \in DOMAIN Last(stack).succs :
          /\ Last(stack).succs[j].effect = "Allocate"
          /\ Last(stack).succs[j].loc.kind = "Structural"
          /\ table[Last(stack).succs[j].loc].res = None
          /\ table[Last(stack).succs[j].loc].preds = <<>>
    /\ \E u \in DOMAIN table, v \in DOMAIN table :
          /\ HasSucc(table, u, "Observe", v)
          /\ HasPred(table, v, "Observe", u)

-----------------------------------------------------------------------------
(* The claim about the witnesses of clean edges, under Spec. *)

(* The witness of the edge holds: the target is a cell of that value, or  *)
(* a CompNode with that result; a CompNode without result or with a dirty *)
(* edge of its own is not judged.                                         *)
WitnessHolds(tbl, succ) ==
    LET node == tbl[succ.loc]
    IN  IF node.kind = "Mut" THEN succ.dep.res = node.val
        ELSE (node.res # None /\ ~HasDirtySucc(tbl, succ.loc))
                 => succ.dep.res = Unwrap(node.res)

(* C33: when the stack is empty (and no call has failed), every clean     *)
(* Observe edge of a node holds a witness equal to the value of the cell  *)
(* it points to, or to the result of the CompNode it points to if that    *)
(* node has a result and no dirty edge.  Violated: a cell allocated over  *)
(* a thunk, or a thunk over a cell, starts with an empty predecessor      *)
(* list, so a later cell or set dirties no edge of the former observers.  *)
C33_CleanEdgeWitness ==
    (stack = <<>> /\ err = NoErr) =>
        \A u \in DOMAIN table :
            \A i \in DOMAIN table[u].succs :
                LET succ == table[u].succs[i]
                IN  (/\ succ.effect = "Observe" /\ ~succ.dirty
                     /\ succ.loc \in DOMAIN table)
                        => WitnessHolds(table, succ)

-----------------------------------------------------------------------------
(* The claim about the discipline of the stack, under SpecNest. *)

(* The locations of the productions whose producer has been called and    *)
(* has not returned, the outermost first.                                 *)
RECURSIVE Producing(_)
Producing(c) ==
    IF c = <<>> THEN <<>>
    ELSE IF Last(c).fn = "produce" /\ Last(c).pc = "ret_producer"
    THEN Append(Producing(Front(c)), Last(c).loc)
    ELSE Producing(Front(c))

(* C34: as long as nothing has failed, the frames of the stack are those  *)
(* of the productions under way, in the order of their calls: produce     *)
(* pops the frame it pushed and leaves the stack as deep as it found it,  *)
(* and the stack is empty when an operation of the outer layer has        *)
(* returned; neither the pop nor the assertion frame.loc == loc fails.    *)
C34_StackDiscipline ==
    /\ err \notin {BrokenStack, BrokenFrame}
    /\ err = NoErr =>
          /\ Len(stack) = Len(Producing(ctl))
          /\ \A i \in DOMAIN stack : stack[i].loc = Producing(ctl)[i]
          /\ ctl = <<>> => stack = <<>>

(* C34, reached: in the force of x the producer of w has forced k, and    *)
(* the production of k has returned: two frames, of x and of w, are left. *)
C34_Witness ==
    /\ err = NoErr /\ last.op = "force" /\ last.loc = Handle("x")
    /\ ctl # <<>> /\ Len(stack) = 2
    /\ Top(St).fn = "force" /\ Top(St).pc = "ret_produce"
    /\ Top(St).loc = Handle("k")
    /\ table[Handle("k")].res # None
    /\ stack[2].loc = Handle("w")
    /\ Len(stack[2].succs) = 1

-----------------------------------------------------------------------------
(* The claim about the node of a running production, under SpecRec. *)

(* C35: as long as nothing has failed, the location of every frame holds  *)
(* a CompNode with an empty succs list, and no predecessor list of the    *)
(* table names the location.  Violated: a producer that allocates its own *)
(* location with another argument and forces it has its node produced     *)
(* again, to the end, under its own frame; the inner production stores    *)
(* its edges in the node and in the predecessor lists of their targets.   *)
C35_ProducingNodeDetached ==
    err = NoErr =>
        \A i \in DOMAIN stack :
            /\ stack[i].loc \in DOMAIN table
            /\ table[stack[i].loc].kind = "Comp"
            /\ table[stack[i].loc].succs = <<>>
            /\ \A v \in DOMAIN table :
                  stack[i].loc \notin Targets(table[v].preds)

====
